---- MODULE Spec2Model ----
(***************************************************************************)
(* Model of _fin_sets.py: the finite set class FSet, the "fake finite set" *)
(* base FFSet and the finite cardinal FCardinal.                           *)
(*                                                                         *)
(* Python objects are modelled by identity.  heap is the store of FSet     *)
(* instances: heap[i].s is the frozenset held by instance i, as the set of *)
(* the identities of its elements, and heap[i].args are the constructor    *)
(* arguments the instance was built from.  cards is the store of FCardinal *)
(* instances (cards[i] is the field value).  call and res record the last  *)
(* operation applied by the caller and what it returned or raised.         *)
(***************************************************************************)
EXTENDS Integers, Sequences, FiniteSets, TLC

VARIABLES heap, cards, call, res

vars == <<heap, cards, call, res>>

\* ---------------------------------------------------------------- bounds
MaxObjs == 4
MaxArgs == 2
MaxCards == 2
MaxVal == 3

\* ------------------------------------------------- native Python values
IntV(n) == [k |-> "int", v |-> n, items |-> <<>>]
FloatV(n) == [k |-> "float", v |-> n, items |-> <<>>]
StrV == [k |-> "str", v |-> 0, items |-> <<>>]
ListV(q) == [k |-> "list", v |-> 0, items |-> q]
TupleV(q) == [k |-> "tuple", v |-> 0, items |-> q]
Ref(i) == [k |-> "fset", v |-> i, items |-> <<>>]
CardRef(i) == [k |-> "fcard", v |-> i, items |-> <<>>]
NoneV == [k |-> "none", v |-> 0, items |-> <<>>]

Range(q) == {q[i] : i \in 1..Len(q)}

\* isinstance(arg, (list, tuple, set, frozenset))
ContainerKinds == {"list", "tuple", "set", "frozenset"}

\* arg == 0: numeric comparison for numbers; FSet defines no __eq__, so an
\* FSet instance compares to 0 by identity (False); a str is never 0.
PyEqZero(arg) == arg.k \in {"int", "float"} /\ arg.v = 0

\* isinstance(arg, int)
IsInt(arg) == arg.k = "int"

\* class FSet defines __hash__ but no __eq__: == is object identity.
ObjectEq(x, y) == x = y

\* ------------------------------------------------------ results
Result(kind, ref, b, n, m) == [kind |-> kind, ref |-> ref, b |-> b, n |-> n, m |-> m]
RFSet(ref) == Result("FSet", ref, FALSE, 0, 0)
RBool(b) == Result("bool", 0, b, 0, 0)
RCard(n) == Result("FCardinal", 0, FALSE, n, 0)
RPair(n, m) == Result("pair", 0, FALSE, n, m)
RNotImplemented == Result("NotImplemented", 0, FALSE, 0, 0)
RRaise(err) == Result(err, 0, FALSE, 0, 0)
RNone == Result("none", 0, FALSE, 0, 0)

Call(op, self, other, args) == [op |-> op, self |-> self, other |-> other, args |-> args]

\* ------------------------------------------------------ FSet.__init__
RECURSIVE FSet__init__(_, _)
RECURSIVE InitLoop(_, _, _, _)

\* the loop "for arg in args" from position i on, s being the set so far
InitLoop(h, a, i, s) ==
    IF i > Len(a) THEN [h |-> h, s |-> s, err |-> "none"]
    ELSE LET arg == a[i] IN
         IF arg.k \in ContainerKinds
         THEN LET c == FSet__init__(h, arg.items) IN
              IF c.err # "none" THEN [h |-> h, s |-> s, err |-> c.err]
              ELSE InitLoop(c.h, a, i + 1, s \cup {c.ref})
         ELSE IF PyEqZero(arg)
         THEN LET c == FSet__init__(h, <<>>) IN
              InitLoop(c.h, a, i + 1, s \cup {c.ref})
         ELSE IF IsInt(arg)
         THEN [h |-> h, s |-> s, err |-> "ValueError"]
         ELSE [h |-> h, s |-> s, err |-> "TypeError"]

\* FSet(*a) evaluated in store h: the new store, the new instance, or the
\* exception raised (the store is then left as it was: nothing built so far
\* is referenced any more).
FSet__init__(h, a) ==
    LET r == InitLoop(h, a, 1, {}) IN
    IF r.err # "none" THEN [h |-> h, ref |-> 0, err |-> r.err]
    ELSE [h |-> Append(r.h, [s |-> r.s, args |-> a]),
          ref |-> Len(r.h) + 1, err |-> "none"]

\* ------------------------------------------------------ inputs
Leaves == {IntV(0), IntV(3), IntV(-1), StrV, FloatV(0)}
Lists == {ListV(<<>>), ListV(<<IntV(0)>>), ListV(<<IntV(3)>>),
          ListV(<<ListV(<<>>)>>), ListV(<<ListV(<<IntV(3)>>)>>)}
Values == Leaves \cup Lists
Ids == 1..Len(heap)
Operands == Values \cup {Ref(i) : i \in Ids}
ArgTuples == UNION {[1..n -> Operands] : n \in 0..MaxArgs}

\* ------------------------------------------------------ state machine
Init ==
    /\ heap = <<>>
    /\ cards = <<>>
    /\ call = Call("none", 0, NoneV, <<>>)
    /\ res = RNone

\* an operation is applied when the previous result has been dropped
Idle == call.op = "none"

\* the caller sees r, the outcome of an expression that builds an FSet
Return(c, r) ==
    /\ Idle
    /\ Len(r.h) <= MaxObjs
    /\ call' = c
    /\ heap' = r.h
    /\ res' = IF r.err = "none" THEN RFSet(r.ref) ELSE RRaise(r.err)
    /\ UNCHANGED cards

\* the caller sees the value v of an expression that builds no FSet
Value(c, v) ==
    /\ Idle
    /\ call' = c
    /\ res' = v
    /\ UNCHANGED <<heap, cards>>

\* the caller drops the result of the last operation
Discard ==
    /\ ~Idle
    /\ call' = Call("none", 0, NoneV, <<>>)
    /\ res' = RNone
    /\ UNCHANGED <<heap, cards>>

\* FSet(*a)
New(a) == Idle /\ Return(Call("FSet", 0, NoneV, a), FSet__init__(heap, a))

\* ------------------------------------------------------ comparisons
\* S == T: FSet defines no __eq__, so object.__eq__ (identity) applies
FSet__eq__(h, i, j) == ObjectEq(i, j)

\* frozenset comparisons of the fields s; elements compare by ObjectEq
FSet__contains__(h, i, j) == \E x \in h[i].s : ObjectEq(x, j)
FSet__le__(h, i, j) == \A x \in h[i].s : \E y \in h[j].s : ObjectEq(x, y)
FSet__lt__(h, i, j) == FSet__le__(h, i, j) /\ h[i].s # h[j].s
FSet__ge__(h, i, j) == \A y \in h[j].s : \E x \in h[i].s : ObjectEq(x, y)
FSet__gt__(h, i, j) == FSet__ge__(h, i, j) /\ h[i].s # h[j].s

Eq(i, j) == Value(Call("eq", i, Ref(j), <<>>), RBool(FSet__eq__(heap, i, j)))
Contains(i, j) == Value(Call("contains", i, Ref(j), <<>>), RBool(FSet__contains__(heap, i, j)))
Le(i, j) == Value(Call("le", i, Ref(j), <<>>), RBool(FSet__le__(heap, i, j)))
Lt(i, j) == Value(Call("lt", i, Ref(j), <<>>), RBool(FSet__lt__(heap, i, j)))
Ge(i, j) == Value(Call("ge", i, Ref(j), <<>>), RBool(FSet__ge__(heap, i, j)))
Gt(i, j) == Value(Call("gt", i, Ref(j), <<>>), RBool(FSet__gt__(heap, i, j)))

\* ------------------------------------------------------ algebra
\* the orders in which iterating a frozenset can yield its elements
Orderings(S) == {q \in [1..Cardinality(S) -> S] : Range(q) = S}

\* *q for a sequence q of FSet instances: each is passed as an argument
Refs(q) == [n \in 1..Len(q) |-> Ref(q[n])]

\* FSet(*(self.s | other.s)) and its three siblings, q the iteration order
FSet__or__(h, i, j, q) == FSet__init__(h, Refs(q))
FSet__and__(h, i, j, q) == FSet__init__(h, Refs(q))
FSet__sub__(h, i, j, q) == FSet__init__(h, Refs(q))
FSet__xor__(h, i, j, q) == FSet__init__(h, Refs(q))

\* FSet(*self.s, *FSet(other).s)
FSet__add__(h, i, other, q) ==
    LET t == FSet__init__(h, <<other>>) IN
    IF t.err # "none" THEN [h |-> h, ref |-> 0, err |-> t.err]
    ELSE LET r == FSet__init__(t.h, Refs(q) \o Refs(CHOOSE p \in Orderings(t.h[t.ref].s) : TRUE)) IN
         IF r.err # "none" THEN [h |-> h, ref |-> 0, err |-> r.err] ELSE r

\* itertools.product(self.s, other.s) for the iteration orders p and q
Product(p, q) ==
    [n \in 1..(Len(p) * Len(q)) |-> <<p[((n - 1) \div Len(q)) + 1], q[((n - 1) % Len(q)) + 1]>>]

\* [FSet(*x) for x in pairs] from position n on, acc the list so far
RECURSIVE MulLoop(_, _, _, _)
MulLoop(h, pairs, n, acc) ==
    IF n > Len(pairs) THEN [h |-> h, acc |-> acc, err |-> "none"]
    ELSE LET c == FSet__init__(h, Refs(pairs[n])) IN
         IF c.err # "none" THEN [h |-> h, acc |-> acc, err |-> c.err]
         ELSE MulLoop(c.h, pairs, n + 1, Append(acc, c.ref))

\* FSet(*[FSet(*x) for x in itertools.product(self.s, other.s)])
FSet__mul__(h, i, j, p, q) ==
    LET l == MulLoop(h, Product(p, q), 1, <<>>) IN
    IF l.err # "none" THEN [h |-> h, ref |-> 0, err |-> l.err]
    ELSE LET r == FSet__init__(l.h, Refs(l.acc)) IN
         IF r.err # "none" THEN [h |-> h, ref |-> 0, err |-> r.err] ELSE r

\* itertools.combinations(q, r): the r-length subsequences of q, in order
RECURSIVE Combinations(_, _)
Combinations(q, r) ==
    IF r = 0 THEN << <<>> >>
    ELSE IF Len(q) < r THEN <<>>
    ELSE LET with == Combinations(Tail(q), r - 1) IN
         [n \in 1..Len(with) |-> <<Head(q)>> \o with[n]] \o Combinations(Tail(q), r)

\* itertools.chain.from_iterable(combinations(q, r) for r in range(len + 1))
RECURSIVE Chain(_, _)
Chain(q, r) == IF r > Len(q) THEN <<>> ELSE Combinations(q, r) \o Chain(q, r + 1)

\* power(): every combination is a tuple argument of FSet
FSet_power(h, i, q) ==
    LET c == Chain(q, 0) IN
    FSet__init__(h, [n \in 1..Len(c) |-> TupleV(Refs(c[n]))])

\* fset_length: FCardinal(len(self.s)), the cardinal as its field value
fset_length(h, i) == Cardinality(h[i].s)

Or(i, j) == Idle /\ \E q \in Orderings(heap[i].s \cup heap[j].s) :
    Return(Call("or", i, Ref(j), <<>>), FSet__or__(heap, i, j, q))
And(i, j) == Idle /\ \E q \in Orderings(heap[i].s \cap heap[j].s) :
    Return(Call("and", i, Ref(j), <<>>), FSet__and__(heap, i, j, q))
Sub(i, j) == Idle /\ \E q \in Orderings(heap[i].s \ heap[j].s) :
    Return(Call("sub", i, Ref(j), <<>>), FSet__sub__(heap, i, j, q))
Xor(i, j) == Idle /\ \E q \in Orderings((heap[i].s \ heap[j].s) \cup (heap[j].s \ heap[i].s)) :
    Return(Call("xor", i, Ref(j), <<>>), FSet__xor__(heap, i, j, q))
Mul(i, j) == Idle /\ \E p \in Orderings(heap[i].s), q \in Orderings(heap[j].s) :
    Return(Call("mul", i, Ref(j), <<>>), FSet__mul__(heap, i, j, p, q))
Add(i, other) == Idle /\ \E q \in Orderings(heap[i].s) :
    Return(Call("add", i, other, <<>>), FSet__add__(heap, i, other, q))
Power(i) == Idle /\ \E q \in Orderings(heap[i].s) :
    Return(Call("power", i, NoneV, <<>>), FSet_power(heap, i, q))
Length(i) == Value(Call("length", i, NoneV, <<>>), RCard(fset_length(heap, i)))

\* ------------------------------------------------------ FCardinal
CardVals == (0 - MaxVal)..MaxVal

\* Python's % and // on integers (b # 0): the remainder has the sign of b
PyMod(a, b) == IF b > 0 THEN a % b ELSE 0 - ((0 - a) % (0 - b))
PyFloorDiv(a, b) ==
    LET r == PyMod(a, b) IN
    IF b > 0 THEN (a - r) \div b ELSE (r - a) \div (0 - b)

RECURSIVE PyPow(_, _)
PyPow(a, b) == IF b = 0 THEN 1 ELSE a * PyPow(a, b - 1)

\* a cardinal is given by its field value; the result is the new one's
FCardinal__eq__(a, b) == a = b
FCardinal__lt__(a, b) == a < b
FCardinal__le__(a, b) == a <= b
FCardinal__sub__(a, b) == a - b
FCardinal__mul__(a, b) == a * b
FCardinal__floordiv__(a, b) == PyFloorDiv(a, b)
FCardinal__mod__(a, b) == PyMod(a, b)
FCardinal__pow__(a, b) == PyPow(a, b)
\* the quotient taken from self // other
FCardinal__divmod__SelfOther(a, b) == <<PyFloorDiv(a, b), PyMod(a, b)>>
FCardinal__divmod__(a, b) == <<PyFloorDiv(a, a), PyMod(a, b)>>

\* FCardinal without its own __lt__ and __le__
ClassDefinesNoOverride(cls) ==
    CASE cls = "FCardinal" ->
           {"__init__", "__repr__", "__str__", "__eq__",
            "__ne__", "__gt__", "__ge__", "__hash__", "__bool__", "__add__",
            "__sub__", "__mul__", "__floordiv__", "__mod__", "__divmod__",
            "__pow__", "set"}
      [] cls = "FFSet" ->
           {"__repr__", "__str__", "__hash__", "__contains__", "__le__",
            "__lt__", "set"}
      [] cls = "FSet" ->
           {"__init__", "__repr__", "__str__", "__hash__", "__contains__",
            "__le__", "__lt__", "__ge__", "__gt__", "__add__", "__or__",
            "__and__", "__sub__", "__xor__", "__mul__", "length", "power"}

\* the classes' bodies: the methods each one defines itself
ClassDefines(cls) ==
    CASE cls = "FCardinal" ->
           {"__init__", "__repr__", "__str__", "__lt__", "__le__", "__eq__",
            "__ne__", "__gt__", "__ge__", "__hash__", "__bool__", "__add__",
            "__sub__", "__mul__", "__floordiv__", "__mod__", "__divmod__",
            "__pow__", "set"}
      [] cls = "FFSet" ->
           {"__repr__", "__str__", "__hash__", "__contains__", "__le__",
            "__lt__", "set"}
      [] cls = "FSet" ->
           {"__init__", "__repr__", "__str__", "__hash__", "__contains__",
            "__le__", "__lt__", "__ge__", "__gt__", "__add__", "__or__",
            "__and__", "__sub__", "__xor__", "__mul__", "length", "power"}

\* class FCardinal(FFSet), class FFSet(FSet, ABC), class FSet
MRO(cls) ==
    CASE cls = "FCardinal" -> <<"FCardinal", "FFSet", "FSet">>
      [] cls = "FFSet" -> <<"FFSet", "FSet">>
      [] cls = "FSet" -> <<"FSet">>

\* the class whose definition of method m an instance of cls runs
Resolve(cls, m) ==
    LET mro == MRO(cls)
        n == CHOOSE n \in 1..Len(mro) :
                 /\ m \in ClassDefines(mro[n])
                 /\ \A k \in 1..(n - 1) : m \notin ClassDefines(mro[k])
    IN mro[n]

\* c.__le__(other), c.__lt__(other) for an FCardinal c of value a
CardCompare(m, a, other) ==
    LET cls == Resolve("FCardinal", m) IN
    IF cls = "FCardinal"
    THEN IF other.k # "fcard" THEN RRaise("AttributeError")
         ELSE IF m = "__le__" THEN RBool(FCardinal__le__(a, cards[other.v]))
         ELSE RBool(FCardinal__lt__(a, cards[other.v]))
    ELSE IF cls = "FFSet" THEN RNotImplemented
    ELSE RRaise("AttributeError")

\* c.__contains__(other) for an FCardinal c
CardContainsMethod(other) ==
    LET cls == Resolve("FCardinal", "__contains__") IN
    IF cls = "FFSet" THEN RNotImplemented ELSE RRaise("AttributeError")

\* FCardinal(n).set evaluated in store h
RECURSIVE FCardinal_set(_, _)
FCardinal_set(h, n) ==
    IF n = 0 THEN FSet__init__(h, <<>>)
    ELSE IF n = 1
    THEN LET e == FSet__init__(h, <<>>)
             r == FSet__init__(e.h, <<Ref(e.ref)>>) IN
         IF r.err # "none" THEN [h |-> h, ref |-> 0, err |-> r.err] ELSE r
    ELSE IF n < 0 THEN [h |-> h, ref |-> 0, err |-> "RecursionError"]
    ELSE LET s == FCardinal_set(h, FCardinal__sub__(n, 1)) IN
         IF s.err # "none" THEN [h |-> h, ref |-> 0, err |-> s.err]
         ELSE LET r == FSet__add__(s.h, s.ref, Ref(s.ref),
                                   CHOOSE q \in Orderings(s.h[s.ref].s) : TRUE) IN
              IF r.err # "none" THEN [h |-> h, ref |-> 0, err |-> r.err] ELSE r

CardIds == 1..Len(cards)
CardOperands == {CardRef(i) : i \in CardIds} \cup {IntV(0)}

\* FCardinal(n).set
CardSet(n) == Return(Call("set", 0, IntV(n), <<>>), FCardinal_set(heap, n))

\* FCardinal(v) for an integer v
CardNew(v) ==
    /\ Idle
    /\ Len(cards) < MaxCards
    /\ cards' = Append(cards, v)
    /\ call' = Call("FCardinal", 0, IntV(v), <<>>)
    /\ res' = RCard(v)
    /\ UNCHANGED heap

\* FCardinal(c) for an FCardinal c: int(c) is c.value
CardCopy(i) ==
    /\ Idle
    /\ Len(cards) < MaxCards
    /\ cards' = Append(cards, cards[i])
    /\ call' = Call("FCardinal", 0, CardRef(i), <<>>)
    /\ res' = RCard(cards[i])
    /\ UNCHANGED heap

CardLe(i, other) == Value(Call("card_le", i, other, <<>>), CardCompare("__le__", cards[i], other))
CardLt(i, other) == Value(Call("card_lt", i, other, <<>>), CardCompare("__lt__", cards[i], other))
CardContains(i, other) == Value(Call("card_contains", i, other, <<>>), CardContainsMethod(other))

\* other in c: the interpreter truth-tests what __contains__ returned; the
\* truth value of NotImplemented is True (with a deprecation warning) or a
\* TypeError, depending on the interpreter's version
CardIn(i, other) ==
    LET r == CardContainsMethod(other) IN
    \E v \in (IF r.kind = "NotImplemented" THEN {RBool(TRUE), RRaise("TypeError")} ELSE {r}) :
        Value(Call("card_in", i, other, <<>>), v)

CardFloordiv(i, j) ==
    Value(Call("floordiv", i, CardRef(j), <<>>),
          IF cards[j] = 0 THEN RRaise("ZeroDivisionError")
          ELSE RCard(FCardinal__floordiv__(cards[i], cards[j])))
CardMod(i, j) ==
    Value(Call("mod", i, CardRef(j), <<>>),
          IF cards[j] = 0 THEN RRaise("ZeroDivisionError")
          ELSE RCard(FCardinal__mod__(cards[i], cards[j])))
CardDivmod(i, j) ==
    Value(Call("divmod", i, CardRef(j), <<>>),
          IF cards[i] = 0 \/ cards[j] = 0 THEN RRaise("ZeroDivisionError")
          ELSE LET p == FCardinal__divmod__(cards[i], cards[j]) IN RPair(p[1], p[2]))

Next ==
    \/ \E a \in ArgTuples : New(a)
    \/ \E i, j \in Ids : Eq(i, j)
    \/ \E i, j \in Ids : Contains(i, j)
    \/ \E i, j \in Ids : Le(i, j)
    \/ \E i, j \in Ids : Lt(i, j)
    \/ \E i, j \in Ids : Ge(i, j)
    \/ \E i, j \in Ids : Gt(i, j)
    \/ \E i, j \in Ids : Or(i, j)
    \/ \E i, j \in Ids : And(i, j)
    \/ \E i, j \in Ids : Sub(i, j)
    \/ \E i, j \in Ids : Xor(i, j)
    \/ \E i, j \in Ids : Mul(i, j)
    \/ \E i \in Ids, other \in Operands : Add(i, other)
    \/ \E i \in Ids : Power(i)
    \/ \E i \in Ids : Length(i)
    \/ \E n \in (0 - 1)..MaxVal : CardSet(n)
    \/ Discard

Spec == Init /\ [][Next]_vars

NextCard ==
    \/ \E v \in CardVals : CardNew(v)
    \/ \E i \in CardIds : CardCopy(i)
    \/ \E i \in CardIds, other \in CardOperands : CardLe(i, other)
    \/ \E i \in CardIds, other \in CardOperands : CardLt(i, other)
    \/ \E i \in CardIds, other \in CardOperands : CardContains(i, other)
    \/ \E i \in CardIds, other \in CardOperands : CardIn(i, other)
    \/ \E i, j \in CardIds : CardFloordiv(i, j)
    \/ \E i, j \in CardIds : CardMod(i, j)
    \/ \E i, j \in CardIds : CardDivmod(i, j)
    \/ Discard

SpecCard == Init /\ [][NextCard]_vars

\* ------------------------------------------------------ properties
\* the hereditarily finite set that instance i stands for
RECURSIVE Denote(_, _)
Denote(h, i) == {Denote(h, x) : x \in h[i].s}

\* the von Neumann set of n: {0, 1, ..., n-1}
RECURSIVE VonNeumann(_)
VonNeumann(n) == {VonNeumann(m) : m \in 0..(n - 1)}

\* some argument, at any depth, is neither an FSet, a container, nor int 0
RECURSIVE HasInvalid(_)
HasInvalid(a) ==
    \E n \in 1..Len(a) :
        IF a[n].k = "fset" THEN FALSE
        ELSE IF a[n].k \in ContainerKinds THEN HasInvalid(a[n].items)
        ELSE ~(a[n].k = "int" /\ a[n].v = 0)

\* the elements of instance i are pairwise structurally distinct
Distinct(h, i) == \A x, y \in h[i].s : Denote(h, x) = Denote(h, y) => x = y

\* C1: FSet(x1, ..., xk) with every xi an existing FSet (k >= 1) returns,
\* without error, a set whose elements are exactly the xi.
C1_FSetArgumentsAccepted ==
    (/\ call.op = "FSet"
     /\ call.args # <<>>
     /\ \A n \in 1..Len(call.args) : call.args[n].k = "fset")
    => (/\ res.kind = "FSet"
        /\ heap[res.ref].s = {call.args[n].v : n \in 1..Len(call.args)})

\* C2: two sets built separately from the same arguments, reordered or
\* duplicated or not, are equal under ==, and no set holds two
\* structurally equal elements.
C2_StructuralEquality ==
    /\ (/\ call.op = "eq"
        /\ Range(heap[call.self].args) = Range(heap[call.other.v].args))
       => res.b
    /\ \A i \in Ids : Cardinality(heap[i].s) = Cardinality(Denote(heap, i))

\* C3: a construction with an invalid argument at any depth fails with an
\* invalid-argument error (ValueError or TypeError) and yields no set.
C3_InvalidArgumentRejected ==
    (call.op = "FSet" /\ HasInvalid(call.args))
    => (res.kind \in {"ValueError", "TypeError"} /\ res.ref = 0)

\* C4: S | T, S & T, S - T, S ^ T, S * T, S + T and S.power() return a new
\* FSet, without error, for all FSet operands.
C4_AlgebraNeverRaises ==
    (/\ call.op \in {"or", "and", "sub", "xor", "mul", "add", "power"}
     /\ call.op = "add" => call.other.k = "fset")
    => (res.kind = "FSet" /\ res.ref \in Ids)

\* C5: for n >= 0, FCardinal(n).set is the von Neumann set of n and has
\* exactly n elements.
C5_VonNeumannSet ==
    (call.op = "set" /\ call.other.v >= 0)
    => (/\ res.kind = "FSet"
        /\ Denote(heap, res.ref) = VonNeumann(call.other.v)
        /\ Cardinality(heap[res.ref].s) = call.other.v)

\* C6: S <= T iff every element of S is structurally equal to an element
\* of T; S < T iff S <= T and S, T are not structurally equal; >=, > mirror.
StructLe(h, i, j) == \A x \in h[i].s : \E y \in h[j].s : Denote(h, x) = Denote(h, y)
StructLt(h, i, j) == StructLe(h, i, j) /\ Denote(h, i) # Denote(h, j)
C6_SubsetOrder ==
    /\ call.op = "le" => res.b = StructLe(heap, call.self, call.other.v)
    /\ call.op = "lt" => res.b = StructLt(heap, call.self, call.other.v)
    /\ call.op = "ge" => res.b = StructLe(heap, call.other.v, call.self)
    /\ call.op = "gt" => res.b = StructLt(heap, call.other.v, call.self)

\* C7: S.power() is the set of all subsets of S, and
\* S.power().length == FCardinal(2) ** S.length.
C7_PowerSet ==
    call.op = "power"
    => (/\ res.kind = "FSet"
        /\ {Denote(heap, x) : x \in heap[res.ref].s} = SUBSET Denote(heap, call.self)
        /\ FCardinal__eq__(fset_length(heap, res.ref),
                           FCardinal__pow__(2, fset_length(heap, call.self))))

\* C8: for S and T with pairwise distinct elements,
\* (S * T).length == S.length * T.length.
C8_ProductLength ==
    (/\ call.op = "mul"
     /\ Distinct(heap, call.self)
     /\ Distinct(heap, call.other.v))
    => (/\ res.kind = "FSet"
        /\ FCardinal__eq__(fset_length(heap, res.ref),
                           FCardinal__mul__(fset_length(heap, call.self),
                                            fset_length(heap, call.other.v))))

\* C9 as stated: on an FCardinal, x in c, c <= d and c < d report the
\* not-implemented sentinel for every operand.
C9_CardinalUnsupported ==
    call.op \in {"card_contains", "card_in", "card_le", "card_lt"}
    => res.kind = "NotImplemented"

\* C9 as amended: c.__contains__(x) returns the not-implemented sentinel
\* for every operand x, while c <= d and c < d, for FCardinal c and d,
\* return the boolean comparison of the two values.
C9_CardinalComparesValues ==
    /\ call.op = "card_contains" => res.kind = "NotImplemented"
    /\ (call.op = "card_le" /\ call.other.k = "fcard")
       => (res.kind = "bool" /\ res.b = (cards[call.self] <= cards[call.other.v]))
    /\ (call.op = "card_lt" /\ call.other.k = "fcard")
       => (res.kind = "bool" /\ res.b = (cards[call.self] < cards[call.other.v]))

C9_Witness ==
    /\ call.op = "card_lt"
    /\ call.other.k = "fcard"
    /\ cards[call.self] < cards[call.other.v]
    /\ res = RBool(TRUE)

\* the remainder r of a by b (b # 0): a = q * b + r with r between 0 and b
IsRemainder(r, a, b) ==
    /\ \E q \in (0 - (MaxVal + 1))..(MaxVal + 1) : a = q * b + r
    /\ (b > 0 => (0 <= r /\ r < b))
    /\ (b < 0 => (b < r /\ r <= 0))

\* C10: whenever divmod(a, b) returns, the quotient is a.value // a.value
\* (which is 1, and differs from a // b whenever a // b is not 1), the
\* remainder is a % b, and neither operand is changed.
C10_DivmodQuotientFromSelf ==
    [][(call'.op = "divmod" /\ res'.kind = "pair")
       => LET a == cards[call'.self]
              b == cards[call'.other.v] IN
          /\ cards' = cards
          /\ res'.n = FCardinal__floordiv__(a, a)
          /\ res'.n = 1
          /\ FCardinal__floordiv__(a, b) # 1 => res'.n # FCardinal__floordiv__(a, b)
          /\ res'.m = FCardinal__mod__(a, b)
          /\ IsRemainder(res'.m, a, b)]_vars

C10_Witness ==
    /\ call.op = "divmod"
    /\ res.kind = "pair"
    /\ cards[call.self] = 3
    /\ cards[call.other.v] = 0 - 2
    /\ res.n = 1
    /\ res.m = 0 - 1

====
